---- MODULE Spec2Model ----
(***************************************************************************)
(* FocusMate backend (src/backend/main.py): the activity store kept in     *)
(* activity.json, the URL classifier, and the two request handlers         *)
(* log_activity (POST /activity) and get_today_analysis                    *)
(* (GET /analysis/today), run by concurrent threads that share the file    *)
(* and the module-level file_lock.                                         *)
(*                                                                         *)
(* Python str values are TLA+ strings, dict values are functions (the      *)
(* per-site dict, whose insertion order the report's stable sort shows, is *)
(* a sequence of <<host, seconds>> entries), dates are day numbers.        *)
(* Records list their fields in the order TLC keeps them (the order in     *)
(* which the names first occur in this module), so that TLC's workers      *)
(* never reorder a record they share.                                      *)
(***************************************************************************)
EXTENDS Integers, Sequences, FiniteSets, TLC

(***************************************************************************)
(* Bounds of the model.                                                    *)
(***************************************************************************)
MaxDay == 2
MaxFaults == 1

Procs == {"r1", "r2"}
Users == {"guest", "bob"}
Durations == {-30, 60}
Urls == { "https://sub.github.com/repo",
          "http://www.Netflix.com",
          "not a url",
          "http://[::1/x" }

(***************************************************************************)
(* Static configuration.                                                   *)
(***************************************************************************)
PRODUCTIVE_SITES ==
  << "coursera.org", "khanacademy.org", "udemy.com", "classroom.google.com",
     "github.com", "stackoverflow.com", "wikipedia.org", "leetcode.com",
     "geeksforgeeks.org", "towardsdatascience.com", "arxiv.org", "openai.com",
     "docs.python.org", "colab.research.google.com", "medium.com",
     "codecademy.com", "freecodecamp.org", "edx.org", "pluralsight.com",
     "lynda.com", "skillshare.com", "brilliant.org", "mit.edu", "stanford.edu" >>

UNPRODUCTIVE_SITES ==
  << "instagram.com", "facebook.com", "twitter.com", "x.com", "reddit.com",
     "netflix.com", "primevideo.com", "spotify.com", "hotstar.com",
     "youtube.com", "tiktok.com", "snapchat.com", "discord.com",
     "twitch.tv", "hulu.com", "disneyplus.com", "pinterest.com" >>

MOTIVATIONAL_QUOTES ==
  << "Focus today, shine tomorrow.",
     "Every moment of focus builds your future.",
     "Productivity is never an accident. It's the result of commitment.",
     "Small progress is still progress. Keep going!",
     "Your focus determines your reality.",
     "Success is the sum of small efforts repeated day in and day out.",
     "The way to get started is to quit talking and begin doing.",
     "Don't watch the clock; do what it does. Keep going.",
     "The future depends on what you do today.",
     "Concentrate all your thoughts upon the work at hand." >>

FALLBACK_QUOTE == "Every journey begins with a single step."

(***************************************************************************)
(* Python str operations.                                                  *)
(***************************************************************************)
CharAt(s, i) == SubSeq(s, i, i)

\* s[m-1:n] of Python (1-based, both ends included, cut to the string)
Slice(s, m, n) ==
  LET last == IF n < Len(s) THEN n ELSE Len(s)
  IN  IF m > last THEN "" ELSE SubSeq(s, m, last)

\* needle in hay
StrIn(needle, hay) ==
  \E i \in 1..(Len(hay) - Len(needle) + 1) :
     SubSeq(hay, i, i + Len(needle) - 1) = needle

\* s.find(c), 1-based; 0 when c does not occur
StrFind(s, c) ==
  IF \E i \in 1..Len(s) : CharAt(s, i) = c
  THEN CHOOSE i \in 1..Len(s) :
         /\ CharAt(s, i) = c
         /\ \A j \in 1..(i - 1) : CharAt(s, j) # c
  ELSE 0

UpperChars == "ABCDEFGHIJKLMNOPQRSTUVWXYZ"
LowerChars == "abcdefghijklmnopqrstuvwxyz"

\* the characters of s
CharSet(s) == {CharAt(s, i) : i \in 1..Len(s)}

UpperSet == CharSet(UpperChars)
LowerOf == [c \in UpperSet |-> CharAt(LowerChars, StrFind(UpperChars, c))]

LowerChar(c) == IF c \in UpperSet THEN LowerOf[c] ELSE c

RECURSIVE StrLower(_)
StrLower(s) ==
  IF Len(s) = 0 THEN s
  ELSE LowerChar(CharAt(s, 1)) \o StrLower(Slice(s, 2, Len(s)))

(***************************************************************************)
(* urlparse(url).netloc, as urllib.parse.urlsplit computes it: an optional *)
(* scheme up to the first ":", then, after "//", the text up to the first  *)
(* of "/", "?", "#".  A netloc with only one of "[" and "]" raises         *)
(* ValueError.                                                             *)
(***************************************************************************)
SchemeChars == CharSet(LowerChars \o UpperChars \o "0123456789+-.")
AlphaChars == CharSet(LowerChars \o UpperChars)

\* url.find(c, 2) of _splitnetloc, 1-based from the third character; 0 if none
FindFrom3(s, c) ==
  IF \E i \in 3..Len(s) : CharAt(s, i) = c
  THEN CHOOSE i \in 3..Len(s) :
         /\ CharAt(s, i) = c
         /\ \A j \in 3..(i - 1) : CharAt(s, j) # c
  ELSE 0

Min2(a, b) == IF a < b THEN a ELSE b

urlparse(url) ==
  LET i == StrFind(url, ":")
      hasScheme == /\ i > 1
                   /\ CharAt(url, 1) \in AlphaChars
                   /\ \A j \in 1..(i - 1) : CharAt(url, j) \in SchemeChars
      rest == IF hasScheme THEN Slice(url, i + 1, Len(url)) ELSE url
      end(c, d) == IF FindFrom3(rest, c) = 0 THEN d ELSE Min2(d, FindFrom3(rest, c))
      delim == end("#", end("?", end("/", Len(rest) + 1)))
      netloc == IF Slice(rest, 1, 2) = "//"
                THEN Slice(rest, 3, delim - 1) ELSE ""
      open == StrFind(netloc, "[") # 0
      close == StrFind(netloc, "]") # 0
  IN  [netloc |-> netloc, raises |-> (open /\ ~close) \/ (close /\ ~open)]

get_host(url) ==
  LET parsed == urlparse(url)
  IN  IF parsed.raises THEN "unknown" ELSE StrLower(parsed.netloc)

\* for site in sites: if site in host: (found)
RECURSIVE AnySiteIn(_, _, _)
AnySiteIn(sites, host, i) ==
  IF i > Len(sites) THEN FALSE
  ELSE IF StrIn(sites[i], host) THEN TRUE
  ELSE AnySiteIn(sites, host, i + 1)

\* is_productive_site with the blacklist checked first
is_productive_site_blacklist_first(url) ==
  LET host == get_host(url)
  IN  IF AnySiteIn(UNPRODUCTIVE_SITES, host, 1) THEN "False"
      ELSE IF AnySiteIn(PRODUCTIVE_SITES, host, 1) THEN "True"
      ELSE "None"

\* Python True / False / None
is_productive_site(url) ==
  LET host == get_host(url)
  IN  IF AnySiteIn(PRODUCTIVE_SITES, host, 1) THEN "True"
      ELSE IF AnySiteIn(UNPRODUCTIVE_SITES, host, 1) THEN "False"
      ELSE "None"

(***************************************************************************)
(* Python dict values.                                                     *)
(***************************************************************************)
EmptyDict == [k \in {} |-> 0]

\* d[k] = v
Put(d, k, v) == [j \in (DOMAIN d) \cup {k} |-> IF j = k THEN v ELSE d[j]]

NewRecord == [sites |-> <<>>, productive |-> 0, unproductive |-> 0]

\* get_user_day_data: the dict after the call; the record returned is
\* the entry [date][user] of it
get_user_day_data(data, date, user) ==
  LET d1 == IF date \in DOMAIN data THEN data ELSE Put(data, date, EmptyDict)
  IN  IF user \in DOMAIN d1[date] THEN d1
      ELSE Put(d1, date, Put(d1[date], user, NewRecord))

\* host in sites
HasSite(sites, host) == \E i \in 1..Len(sites) : sites[i][1] = host

\* sites[host]
SiteSeconds(sites, host) ==
  LET i == CHOOSE j \in 1..Len(sites) : sites[j][1] = host IN sites[i][2]

\* if host not in sites: sites[host] = 0 ; sites[host] += duration
AddSite(sites, host, duration) ==
  LET s0 == IF HasSite(sites, host) THEN sites ELSE Append(sites, <<host, 0>>)
  IN  [i \in 1..Len(s0) |->
         IF s0[i][1] = host THEN <<host, s0[i][2] + duration>> ELSE s0[i]]

\* UpdateRecord with every host that is not productive counted unproductive
UpdateRecord_neutral_counted(user_data, productive, host, duration) ==
  [sites        |-> AddSite(user_data.sites, host, duration),
   productive   |-> IF productive = "True"
                    THEN user_data.productive + duration
                    ELSE user_data.productive,
   unproductive |-> IF productive # "True"
                    THEN user_data.unproductive + duration
                    ELSE user_data.unproductive]

\* lines 200-210 of log_activity on the record user_data
UpdateRecord(user_data, productive, host, duration) ==
  [sites        |-> AddSite(user_data.sites, host, duration),
   productive   |-> IF productive = "True"
                    THEN user_data.productive + duration
                    ELSE user_data.productive,
   unproductive |-> IF productive = "False"
                    THEN user_data.unproductive + duration
                    ELSE user_data.unproductive]

\* lines 194-210 of log_activity on the loaded dict
LogUpdate(data, today, user, productive, host, duration) ==
  LET d == get_user_day_data(data, today, user)
      rec == UpdateRecord(d[today][user], productive, host, duration)
  IN  Put(d, today, Put(d[today], user, rec))

(***************************************************************************)
(* The report of get_today_analysis.  Percentages are in tenths; a value   *)
(* that may be None is the empty set or a singleton.                       *)
(***************************************************************************)
\* round(n / d, 0) for d > 0, ties to even, as Python's round
RoundDiv(n, d) ==
  LET q == (2 * n + d) \div (2 * d)
  IN  IF (2 * n + d) % (2 * d) = 0 /\ q % 2 = 1 THEN q - 1 ELSE q

\* Percent with 100.0 where there are no minutes
Percent_full_when_idle(productive_minutes, total_minutes) ==
  IF total_minutes > 0 THEN RoundDiv(1000 * productive_minutes, total_minutes)
  ELSE 1000

\* Percent cut to one decimal instead of rounded
Percent_truncated(productive_minutes, total_minutes) ==
  IF total_minutes > 0 THEN (1000 * productive_minutes) \div total_minutes
  ELSE 0

\* round((productive_minutes / total_minutes) * 100, 1), in tenths
Percent(productive_minutes, total_minutes) ==
  IF total_minutes > 0 THEN RoundDiv(1000 * productive_minutes, total_minutes)
  ELSE 0

(***************************************************************************)
(* round(productivity_percent - yesterday_percent, 1) on Python floats.    *)
(* productivity_percent is the double nearest to k / 10 and                *)
(* yesterday_percent the double (yp / yt) * 100.  The result is the tenth  *)
(* nearest to the exact value of the double difference.  Where the exact   *)
(* rational k / 10 - 100 * yp / yt is not half-way between two tenths the  *)
(* doubles' errors (below 1e-13) cannot change it.  Where it is half-way,  *)
(* yp / yt is an odd multiple of 1 / 16 for all yt below 80 (the next      *)
(* denominators are 80, 400 and 2000), so yesterday_percent is exact, and  *)
(* the side on which the double difference falls follows from the bits of  *)
(* the double of k / 10: its 53-bit mantissa M = round(|k| * 2^s / 10), of *)
(* which the remainder modulo 10 gives the direction of the rounding and   *)
(* the low bits what the subtraction rounds away.                          *)
(***************************************************************************)
Abs(x) == IF x < 0 THEN 0 - x ELSE x
Sgn(x) == IF x > 0 THEN 1 ELSE IF x < 0 THEN 0 - 1 ELSE 0

RECURSIVE Pow2(_)
Pow2(n) == IF n = 0 THEN 1 ELSE 2 * Pow2(n - 1)

\* 2^n % 10
Pow2Mod10(n) == IF n = 0 THEN 1 ELSE <<6, 2, 4, 8>>[(n % 4) + 1]

\* 2^E * den <= num
BinadeAtLeast(num, den, E) ==
  IF E >= 0 THEN Pow2(E) * den <= num ELSE den <= num * Pow2(0 - E)

\* the exponent of the double num / den: the E with 2^E <= num / den < 2^(E+1)
Binade(num, den) ==
  CHOOSE E \in (0 - 12)..24 :
     BinadeAtLeast(num, den, E) /\ ~BinadeAtLeast(num, den, E + 1)

\* whether the double difference is above the half-way value n2 / 20, for
\* k not a multiple of 5 (k / 10 is then no double)
DiffAbove(k, n2) ==
  LET pa == Abs(k)
      E == Binade(pa, 10)
      s == 52 - E
      up == IF (pa * Pow2Mod10(s)) % 10 > 5 THEN 1 ELSE 0
      se == Sgn(k) * (IF up = 1 THEN 1 ELSE 0 - 1)
      g == Binade(Abs(n2), 20) - E
      sig == Sgn(n2)
      h == g + 1
      rp == (pa * Pow2Mod10(s - h)) % 10
      Mm == (((rp * Pow2(h)) \div 10) + up) % Pow2(h)
      L == (sig * Sgn(k) * Mm) % Pow2(h)
      rho == L % Pow2(g)
      magup == IF rho = 0 THEN sig * se > 0
               ELSE IF rho < Pow2(g - 1) THEN FALSE
               ELSE IF rho > Pow2(g - 1) THEN TRUE
               ELSE L \div Pow2(g) = 1
  IN  IF g <= 0 THEN se > 0
      ELSE IF sig > 0 THEN magup ELSE ~magup

\* round(k / 10 - (yp / yt) * 100, 1) in tenths, for yt > 0
RoundDiff(k, yp, yt) ==
  IF (2000 * yp) % yt # 0 \/ ((2000 * yp) \div yt) % 2 = 0
  THEN RoundDiv(k * yt - 1000 * yp, yt)
  ELSE LET n2 == 2 * k - ((2000 * yp) \div yt)
           lo == (n2 - 1) \div 2
       IN  IF k % 5 = 0 THEN (IF lo % 2 = 0 THEN lo ELSE lo + 1)
           ELSE IF DiffAbove(k, n2) THEN lo + 1 ELSE lo

\* lines 263-272
Delta(data, yesterday, user, productivity_percent) ==
  IF yesterday \in DOMAIN data /\ user \in DOMAIN data[yesterday]
  THEN LET yesterday_productive == data[yesterday][user].productive \div 60
           yesterday_unproductive == data[yesterday][user].unproductive \div 60
           yesterday_total == yesterday_productive + yesterday_unproductive
       IN  IF yesterday_total > 0
           THEN {RoundDiff(productivity_percent, yesterday_productive,
                           yesterday_total)}
           ELSE {}
  ELSE {}

\* lines 275-282: the sites of at least one minute, in dict order
RECURSIVE Breakdown(_)
Breakdown(sites) ==
  IF Len(sites) = 0 THEN <<>>
  ELSE LET minutes == sites[1][2] \div 60
           rest == Breakdown(Tail(sites))
       IN  IF minutes > 0 THEN <<(<<sites[1][1], minutes>>)>> \o rest ELSE rest

\* insert e into a list sorted by minutes descending, after its equals
RECURSIVE InsertDesc(_, _)
InsertDesc(sorted, e) ==
  IF Len(sorted) = 0 THEN <<e>>
  ELSE IF sorted[1][2] >= e[2] THEN <<sorted[1]>> \o InsertDesc(Tail(sorted), e)
  ELSE <<e>> \o sorted

\* SortDesc that leaves the list in dict order
SortDesc_unsorted(l) == l

\* site_breakdown.sort(key=minutes, reverse=True), a stable sort
RECURSIVE SortDesc(_)
SortDesc(l) ==
  IF Len(l) = 0 THEN <<>>
  ELSE InsertDesc(SortDesc(SubSeq(l, 1, Len(l) - 1)), l[Len(l)])

TOP_SITES == 10

Report(data0, today, yesterday, user, quote) ==
  LET data == get_user_day_data(data0, today, user)
      today_data == data[today][user]
      productive_minutes == today_data.productive \div 60
      unproductive_minutes == today_data.unproductive \div 60
      total_minutes == productive_minutes + unproductive_minutes
      productivity_percent == Percent(productive_minutes, total_minutes)
      sorted == SortDesc(Breakdown(today_data.sites))
  IN  [productive_minutes |-> productive_minutes,
       productivity_percent |-> productivity_percent,
       quote |-> quote,
       unproductive_minutes |-> unproductive_minutes,
       delta_vs_yesterday_percent |->
           Delta(data, yesterday, user, productivity_percent),
       by_site |-> SubSeq(sorted, 1, Min2(TOP_SITES, Len(sorted))),
       error |-> FALSE]

\* ErrorReport without its "error" key
ErrorReport_no_indicator ==
  [productive_minutes |-> 0,
   productivity_percent |-> 0,
   quote |-> FALLBACK_QUOTE,
   unproductive_minutes |-> 0,
   delta_vs_yesterday_percent |-> {},
   by_site |-> <<>>,
   error |-> FALSE]

\* the except clause of get_today_analysis
ErrorReport ==
  [productive_minutes |-> 0,
   productivity_percent |-> 0,
   quote |-> FALLBACK_QUOTE,
   unproductive_minutes |-> 0,
   delta_vs_yesterday_percent |-> {},
   by_site |-> <<>>,
   error |-> TRUE]

(***************************************************************************)
(* State.  file is activity.json (absent, a JSON document, or text that is *)
(* no JSON document); file_lock is the threading.Lock; now is the wall     *)
(* clock's day.  Each element of Procs is one handler invocation: pc is   *)
(* its position, args its parameters, data / today / yesterday its locals, *)
(* result what it returns.  faults counts the I/O faults and process       *)
(* restarts injected.  For the properties only: history lists the events   *)
(* whose update was computed, obs records what each invocation met, seen   *)
(* the (date, user) pairs a completed save has written.                    *)
(***************************************************************************)
VARIABLES file, file_lock, now, pc, args, data, today, yesterday, productive,
          host, result, faults, history, obs, seen

vars == <<file, file_lock, now, pc, args, data, today, yesterday, productive,
          host, result, faults, history, obs, seen>>

AbsentFile == [kind |-> "absent", doc |-> EmptyDict]
CorruptFile == [kind |-> "corrupt", doc |-> EmptyDict]
JsonFile(d) == [kind |-> "json", doc |-> d]

NoArgs == [url |-> "", user |-> "", duration |-> 0, op |-> "none"]
NoResult == [status |-> "none"]
NoObs == [alone |-> FALSE, pre |-> AbsentFile, loadSaw |-> "none",
          saveFailed |-> FALSE]

InFlight(p) == pc[p] \notin {"idle", "done", "killed"}

Init ==
  /\ file = AbsentFile
  /\ file_lock = "free"
  /\ now = 1
  /\ pc = [p \in Procs |-> "idle"]
  /\ args = [p \in Procs |-> NoArgs]
  /\ data = [p \in Procs |-> EmptyDict]
  /\ today = [p \in Procs |-> 0]
  /\ yesterday = [p \in Procs |-> 0]
  /\ productive = [p \in Procs |-> "None"]
  /\ host = [p \in Procs |-> ""]
  /\ result = [p \in Procs |-> NoResult]
  /\ faults = 0
  /\ history = <<>>
  /\ obs = [p \in Procs |-> NoObs]
  /\ seen = {}

\* a request arrives: invocation p of a handler starts
Call(p, a) ==
  /\ pc[p] = "idle"
  /\ pc' = [pc EXCEPT ![p] = "load"]
  /\ args' = [args EXCEPT ![p] = a]
  /\ obs' = [q \in Procs |->
               IF q = p
               THEN [NoObs EXCEPT !.alone = \A r \in Procs \ {p} : ~InFlight(r),
                                  !.pre = file]
               ELSE IF InFlight(q) THEN [obs[q] EXCEPT !.alone = FALSE]
               ELSE obs[q]]
  /\ UNCHANGED <<file, file_lock, now, data, today, yesterday, productive,
                 host, result, faults, history, seen>>

\* POST /activity
LogCall(p) ==
  \E url \in Urls, duration \in Durations, user \in Users :
     Call(p, [url |-> url, user |-> user, duration |-> duration, op |-> "log"])

\* GET /analysis/today
AnalysisCall(p) ==
  \E user \in Users :
     Call(p, [url |-> "", user |-> user, duration |-> 0, op |-> "analysis"])

\* the (date, user) pairs that have a record in a store
Keys(store) ==
  {k \in (DOMAIN store) \X Users : k[2] \in DOMAIN store[k[1]]}

\* what load_data returns when it returns
Loaded(f) == IF f.kind = "json" THEN f.doc ELSE EmptyDict

\* the except clause of each handler
ErrorResult(op) ==
  IF op = "log" THEN [productive |-> "None", status |-> "error"]
  ELSE ErrorReport

\* LoadData without file_lock
LoadData_unlocked(p) ==
  /\ pc[p] = "load"
  /\ data' = [data EXCEPT ![p] = Loaded(file)]
  /\ pc' = [pc EXCEPT ![p] = IF args[p].op = "log" THEN "la_update" ELSE "ta_today"]
  /\ obs' = [obs EXCEPT ![p].loadSaw = file.kind]
  /\ UNCHANGED <<productive, host, file, file_lock, now, args, today, yesterday,
                 result, faults, history, seen>>

\* load_data, the whole with-block (file_lock taken and released): no
\* file, or the document, or {} on JSONDecodeError
LoadData(p) ==
  /\ pc[p] = "load"
  /\ file_lock = "free"
  /\ data' = [data EXCEPT ![p] = Loaded(file)]
  /\ file_lock' = "free"
  /\ pc' = [pc EXCEPT ![p] = IF args[p].op = "log" THEN "la_update" ELSE "ta_today"]
  /\ obs' = [obs EXCEPT ![p].loadSaw = file.kind]
  /\ UNCHANGED <<productive, host, file, now, args, today, yesterday, result, faults,
                 history, seen>>

\* load_data, the whole with-block: the file exists and open() or read() raises an
\* exception other than JSONDecodeError and FileNotFoundError (an OSError
\* such as PermissionError); it leaves load_data and is caught by the
\* handler's except clause
LoadDataRaises(p) ==
  /\ pc[p] = "load"
  /\ file_lock = "free"
  /\ file.kind # "absent"
  /\ faults < MaxFaults
  /\ faults' = faults + 1
  /\ file_lock' = "free"
  /\ result' = [result EXCEPT ![p] = ErrorResult(args[p].op)]
  /\ pc' = [pc EXCEPT ![p] = "done"]
  /\ obs' = [obs EXCEPT ![p].loadSaw = "unreadable"]
  /\ UNCHANGED <<productive, host, file, now, args, data, today, yesterday, history, seen>>

\* log_activity: today_str() and the update of the loaded dict
LogUpdateStep(p) ==
  /\ pc[p] = "la_update"
  /\ today' = [today EXCEPT ![p] = now]
  /\ productive' = [productive EXCEPT ![p] = is_productive_site(args[p].url)]
  /\ host' = [host EXCEPT ![p] = get_host(args[p].url)]
  /\ data' = [data EXCEPT ![p] =
                LogUpdate(data[p], now, args[p].user, productive'[p],
                          host'[p], args[p].duration)]
  /\ history' = Append(history, [url |-> args[p].url, user |-> args[p].user,
                                 duration |-> args[p].duration,
                                 day |-> now])
  /\ pc' = [pc EXCEPT ![p] = "save"]
  /\ UNCHANGED <<file, file_lock, now, args, yesterday, result,
                 faults, obs, seen>>

\* what log_activity returns after save_data
OkResult(p) ==
  [host |-> host[p], productive |-> productive[p], status |-> "ok",
   duration_logged |-> args[p].duration]

\* SaveErrorResult with the exception leaving save_data: the handler's
\* except clause answers
SaveErrorResult_raised(p) == ErrorResult("log")

\* what log_activity returns when save_data met an exception: save_data
\* catches and prints it, the handler goes on to its return statement
SaveErrorResult(p) == OkResult(p)

\* save_data: file_lock is taken and open(DATA_FILE, 'w') truncates the file
SaveOpen(p) ==
  /\ pc[p] = "save"
  /\ file_lock = "free"
  /\ file_lock' = p
  /\ file' = CorruptFile
  /\ pc' = [pc EXCEPT ![p] = "save_dump"]
  /\ UNCHANGED <<productive, host, now, args, data, today, yesterday, result,
                 faults, history, obs, seen>>

\* save_data, the whole with-block: open() raises; caught and printed by
\* save_data
SaveOpenFails(p) ==
  /\ pc[p] = "save"
  /\ file_lock = "free"
  /\ faults < MaxFaults
  /\ faults' = faults + 1
  /\ file_lock' = "free"
  /\ result' = [result EXCEPT ![p] = SaveErrorResult(p)]
  /\ pc' = [pc EXCEPT ![p] = "done"]
  /\ obs' = [obs EXCEPT ![p].saveFailed = TRUE]
  /\ UNCHANGED <<productive, host, file, now, args, data, today, yesterday, history, seen>>

\* save_data: json.dump writes the document, file_lock is released
SaveDump(p) ==
  /\ pc[p] = "save_dump"
  /\ file' = JsonFile(data[p])
  /\ file_lock' = "free"
  /\ result' = [result EXCEPT ![p] = OkResult(p)]
  /\ pc' = [pc EXCEPT ![p] = "done"]
  /\ seen' = seen \cup Keys(data[p])
  /\ UNCHANGED <<productive, host, now, args, data, today, yesterday, faults, history,
                 obs>>

\* save_data: json.dump raises part-way (a write error); caught and
\* printed by save_data, the file keeps what was written so far
SaveDumpFails(p) ==
  /\ pc[p] = "save_dump"
  /\ faults < MaxFaults
  /\ faults' = faults + 1
  /\ file' = CorruptFile
  /\ file_lock' = "free"
  /\ result' = [result EXCEPT ![p] = SaveErrorResult(p)]
  /\ pc' = [pc EXCEPT ![p] = "done"]
  /\ obs' = [obs EXCEPT ![p].saveFailed = TRUE]
  /\ UNCHANGED <<productive, host, now, args, data, today, yesterday, history, seen>>

\* get_today_analysis: today = today_str()
AnalysisToday(p) ==
  /\ pc[p] = "ta_today"
  /\ today' = [today EXCEPT ![p] = now]
  /\ pc' = [pc EXCEPT ![p] = "ta_yesterday"]
  /\ UNCHANGED <<productive, host, file, file_lock, now, args, data, yesterday, result,
                 faults, history, obs, seen>>

\* AnalysisCompute followed by save_data(data)
AnalysisCompute_saves(p) ==
  /\ pc[p] = "ta_yesterday"
  /\ file_lock = "free"
  /\ yesterday' = [yesterday EXCEPT ![p] = now - 1]
  /\ data' = [data EXCEPT ![p] =
                get_user_day_data(data[p], today[p], args[p].user)]
  /\ \E q \in 1..Len(MOTIVATIONAL_QUOTES) :
        result' = [result EXCEPT ![p] =
                     Report(data[p], today[p], now - 1, args[p].user,
                            MOTIVATIONAL_QUOTES[q])]
  /\ file' = JsonFile(data'[p])
  /\ pc' = [pc EXCEPT ![p] = "done"]
  /\ UNCHANGED <<productive, host, file_lock, now, args, today, faults,
                 history, obs, seen>>

\* get_today_analysis: yesterday = yesterday_str() and the rest of the body
AnalysisCompute(p) ==
  /\ pc[p] = "ta_yesterday"
  /\ yesterday' = [yesterday EXCEPT ![p] = now - 1]
  /\ data' = [data EXCEPT ![p] =
                get_user_day_data(data[p], today[p], args[p].user)]
  /\ \E q \in 1..Len(MOTIVATIONAL_QUOTES) :
        result' = [result EXCEPT ![p] =
                     Report(data[p], today[p], now - 1, args[p].user,
                            MOTIVATIONAL_QUOTES[q])]
  /\ pc' = [pc EXCEPT ![p] = "done"]
  /\ UNCHANGED <<productive, host, file, file_lock, now, args, today, faults,
                 history, obs, seen>>

\* midnight passes
Tick ==
  /\ now < MaxDay
  /\ now' = now + 1
  /\ UNCHANGED <<productive, host, file, file_lock, pc, args, data, today, yesterday, result,
                 faults, history, obs, seen>>

\* the process is killed and started again: the invocations in flight are
\* gone, the lock is new, the file is what it was
Restart ==
  /\ faults < MaxFaults
  /\ \E p \in Procs : InFlight(p)
  /\ faults' = faults + 1
  /\ file_lock' = "free"
  /\ pc' = [p \in Procs |-> IF InFlight(p) THEN "killed" ELSE pc[p]]
  /\ UNCHANGED <<file, now, args, data, today, yesterday, productive, host,
                 result, history, obs, seen>>

Next ==
  \/ \E p \in Procs :
        \/ LogCall(p)
        \/ AnalysisCall(p)
        \/ LoadData(p)
        \/ LoadDataRaises(p)
        \/ LogUpdateStep(p)
        \/ SaveOpen(p)
        \/ SaveOpenFails(p)
        \/ SaveDump(p)
        \/ SaveDumpFails(p)
        \/ AnalysisToday(p)
        \/ AnalysisCompute(p)
  \/ Tick
  \/ Restart

Spec == Init /\ [][Next]_vars

(***************************************************************************)
(* log_activity run alone, for the URLs of ClassifyUrls: the handler's     *)
(* steps of one invocation, started from the state right after its call.   *)
(***************************************************************************)
ClassifySchemes == {"http://", "HTTPS://", ""}
ClassifyPrefixes == {"", "www.", "Sub."}
ClassifyDomains == {"github.com", "x.com", "Netflix.com", "example.org",
                    "mit.edu", "summit.education", "[::1", ""}
ClassifySuffixes == {"", "/path?q=github.com", ".x.com", ".github.com:8080"}

ClassifyUrls ==
  {a \o b \o c \o d : a \in ClassifySchemes, b \in ClassifyPrefixes,
                      c \in ClassifyDomains, d \in ClassifySuffixes}

ClassifyInit ==
  /\ file = AbsentFile
  /\ file_lock = "free"
  /\ now = 1
  /\ pc = [p \in Procs |-> IF p = "r1" THEN "load" ELSE "idle"]
  /\ \E url \in ClassifyUrls :
        args = [p \in Procs |->
                  IF p = "r1"
                  THEN [url |-> url, user |-> "guest", duration |-> 60,
                        op |-> "log"]
                  ELSE NoArgs]
  /\ data = [p \in Procs |-> EmptyDict]
  /\ today = [p \in Procs |-> 0]
  /\ yesterday = [p \in Procs |-> 0]
  /\ productive = [p \in Procs |-> "None"]
  /\ host = [p \in Procs |-> ""]
  /\ result = [p \in Procs |-> NoResult]
  /\ faults = 0
  /\ history = <<>>
  /\ obs = [p \in Procs |-> IF p = "r1" THEN [NoObs EXCEPT !.alone = TRUE]
                            ELSE NoObs]
  /\ seen = {}

ClassifyNext ==
  \/ LoadData("r1")
  \/ LogUpdateStep("r1")
  \/ SaveOpen("r1")
  \/ SaveDump("r1")

ClassifySpec == ClassifyInit /\ [][ClassifyNext]_vars

(***************************************************************************)
(* get_today_analysis run alone on day ReportDay, for the stores of        *)
(* ReportStores: the handler's steps of one invocation, started from the   *)
(* state right after its call.  A stored record is one that POST /activity *)
(* calls build: productive seconds on github.com, unproductive seconds on  *)
(* www.netflix.com, and the seconds of neutral hosts.                      *)
(***************************************************************************)
ReportDay == 2

\* <<productive seconds, unproductive seconds>>
ReportSeconds == { <<0, 0>>, <<59, 59>>, <<600, 300>>, <<600, 600>>,
                   <<60, 420>>, <<60, 900>>, <<180, 780>>, <<60, 120>>,
                   <<3600, 0>>, <<0, 3600>>, <<119, 61>>, <<-60, 0>>,
                   <<-30, 120>> }

\* 12 neutral hosts, of 1 to 12 minutes
ManySites == [i \in 1..12 |-> <<"s" \o ToString(i) \o ".example.org", 60 * i + 5>>]

\* 11 neutral hosts of one minute each, and one of less
EqualSites == [i \in 1..12 |->
                 <<"e" \o ToString(i) \o ".example.org", IF i = 3 THEN 30 ELSE 60>>]

\* the seconds of neutral hosts
ReportSites == { <<>>,
                 << <<"a.com", 125>>, <<"b.com", 59>>, <<"c.com", 61>> >>,
                 ManySites,
                 EqualSites }

MkRecord(sec, neutral) ==
  [sites |-> << <<"github.com", sec[1]>>, <<"www.netflix.com", sec[2]>> >>
               \o neutral,
   productive |-> sec[1],
   unproductive |-> sec[2]]

\* no record, or one record
YesterdayRecords == {{}} \cup {{MkRecord(sec, <<>>)} : sec \in ReportSeconds}
TodayRecords ==
  {{}} \cup {{MkRecord(sec, neutral)} : sec \in ReportSeconds,
                                        neutral \in ReportSites}

\* the dict of one day: guest's record and bob's, where they have one
DayDict(guest, bob) ==
  [u \in {v \in Users : (v = "guest" /\ guest # {}) \/ (v = "bob" /\ bob # {})}
     |-> IF u = "guest" THEN CHOOSE r \in guest : TRUE
         ELSE CHOOSE r \in bob : TRUE]

\* the store with guest's records of yesterday and today and, with
\* withBob, a record of bob for yesterday only
MkStore(gy, gt, withBob) ==
  LET bob == IF withBob THEN {MkRecord(<<600, 600>>, <<>>)} ELSE {}
      d1 == DayDict(gy, bob)
      d2 == DayDict(gt, {})
  IN  [d \in {e \in {ReportDay - 1, ReportDay} :
                 (e = ReportDay - 1 /\ DOMAIN d1 # {})
                 \/ (e = ReportDay /\ DOMAIN d2 # {})}
         |-> IF d = ReportDay - 1 THEN d1 ELSE d2]

ReportStores ==
  {MkStore(gy, gt, withBob) :
     gy \in YesterdayRecords, gt \in TodayRecords, withBob \in BOOLEAN}

ReportFiles == {AbsentFile, CorruptFile} \cup {JsonFile(d) : d \in ReportStores}

ReportInit ==
  /\ file \in ReportFiles
  /\ file_lock = "free"
  /\ now = ReportDay
  /\ pc = [p \in Procs |-> IF p = "r1" THEN "load" ELSE "idle"]
  /\ \E user \in Users :
        args = [p \in Procs |->
                  IF p = "r1"
                  THEN [url |-> "", user |-> user, duration |-> 0,
                        op |-> "analysis"]
                  ELSE NoArgs]
  /\ data = [p \in Procs |-> EmptyDict]
  /\ today = [p \in Procs |-> 0]
  /\ yesterday = [p \in Procs |-> 0]
  /\ productive = [p \in Procs |-> "None"]
  /\ host = [p \in Procs |-> ""]
  /\ result = [p \in Procs |-> NoResult]
  /\ faults = 0
  /\ history = <<>>
  /\ obs = [p \in Procs |->
              IF p = "r1" THEN [NoObs EXCEPT !.alone = TRUE, !.pre = file]
              ELSE NoObs]
  /\ seen = {}

ReportNext ==
  \/ LoadData("r1")
  \/ AnalysisToday("r1")
  \/ AnalysisCompute("r1")

ReportSpec == ReportInit /\ [][ReportNext]_vars

(***************************************************************************)
(* Properties.                                                             *)
(***************************************************************************)
\* the store a load of the file returns
Persisted == Loaded(file)

HasRecord(store, d, u) == d \in DOMAIN store /\ u \in DOMAIN store[d]

\* the record of (d, u), all zeros when the store has none
RecordOf(store, d, u) == IF HasRecord(store, d, u) THEN store[d][u] ELSE NewRecord

\* sites[h], 0 when the host has no entry
SecondsOf(sites, h) == IF HasSite(sites, h) THEN SiteSeconds(sites, h) ELSE 0

RECURSIVE SumSites(_)
SumSites(sites) ==
  IF Len(sites) = 0 THEN 0 ELSE sites[1][2] + SumSites(Tail(sites))

\* the sum of the durations of a list of events
RECURSIVE SumDurations(_)
SumDurations(h) ==
  IF Len(h) = 0 THEN 0 ELSE h[1].duration + SumDurations(Tail(h))

\* the sum of the durations of the events of h that satisfy keep
SumEvents(h, keep(_)) == SumDurations(SelectSeq(h, keep))

AllReturned == \A p \in Procs : pc[p] \in {"idle", "done"}

LogDone(p) == pc[p] = "done" /\ args[p].op = "log"
AnalysisDone(p) == pc[p] = "done" /\ args[p].op = "analysis"

\* C1: once all concurrent POST /activity invocations of one day have
\* returned, with no persistence failure and an initially empty store, the
\* persisted totals of every user are the sums of the durations of that
\* user's events: productive, unproductive, and per host.
NoLostUpdate ==
  (AllReturned /\ faults = 0 /\ now = 1) =>
     \A u \in Users :
        LET rec == RecordOf(Persisted, 1, u)
            Mine(e) == e.user = u
            Prod(e) == e.user = u /\ is_productive_site(e.url) = "True"
            Unprod(e) == e.user = u /\ is_productive_site(e.url) = "False"
        IN  /\ rec.productive = SumEvents(history, Prod)
            /\ rec.unproductive = SumEvents(history, Unprod)
            /\ \A url \in Urls :
                  LET OnHost(e) == e.user = u /\ get_host(e.url) = get_host(url)
                  IN  SecondsOf(rec.sites, get_host(url)) =
                         SumEvents(history, OnHost)

\* C2: at most one log_activity invocation is between its load of the
\* store and its save of the store.
BetweenLoadAndSave(p) ==
  args[p].op = "log" /\ pc[p] \in {"la_update", "save", "save_dump"}

MutualExclusionOfCycle ==
  Cardinality({p \in Procs : BetweenLoadAndSave(p)}) <= 1

\* the effect of the event of invocation p on the stored record of its user
\* and day, from the store before the invocation to the store it saves
EffectOn(p, before, after) ==
  LET d == args[p].duration
      h == get_host(args[p].url)
      class == is_productive_site(args[p].url)
      old == RecordOf(before, today[p], args[p].user)
      new == RecordOf(after, today[p], args[p].user)
  IN  /\ HasRecord(after, today[p], args[p].user)
      /\ SecondsOf(new.sites, h) = SecondsOf(old.sites, h) + d
      /\ new.productive = old.productive + (IF class = "True" THEN d ELSE 0)
      /\ new.unproductive = old.unproductive + (IF class = "False" THEN d ELSE 0)

\* C3: a POST /activity executed alone with no persistence failure adds
\* its duration d to sites[h] of the user's record for today (0 if absent
\* before), to productive exactly when h is Productive, to unproductive
\* exactly when h is Unproductive, and to neither when h is Neutral.
EffectOfOneEvent ==
  [][\A p \in Procs :
        (/\ args[p].op = "log"
         /\ pc[p] = "save_dump" /\ pc'[p] = "done"
         /\ obs'[p].alone /\ ~obs'[p].saveFailed)
        => EffectOn(p, Loaded(obs[p].pre), Loaded(file'))]_vars

\* an event executed alone was added to a record and a host its user had
EffectOfOneEventWitness ==
  \E p \in Procs :
     /\ LogDone(p) /\ obs[p].alone /\ ~obs[p].saveFailed
     /\ result[p].status = "ok"
     /\ HasRecord(Loaded(obs[p].pre), today[p], args[p].user)
     /\ HasSite(RecordOf(Loaded(obs[p].pre), today[p], args[p].user).sites,
                host[p])
     /\ productive[p] = "None"

\* the URL has no host: urlparse raises or its netloc is empty
NoHost(url) == urlparse(url).raises \/ urlparse(url).netloc = ""

\* C4: for a URL whose parsing fails or yields no host, the host is the
\* sentinel "unknown", and POST /activity (its load and save succeeding)
\* returns status ok, classification Neutral and that host, and has added
\* its duration to sites["unknown"].
MalformedUrlIsUnknown ==
  \A p \in Procs :
     (/\ LogDone(p) /\ NoHost(args[p].url)
      /\ obs[p].loadSaw # "unreadable" /\ ~obs[p].saveFailed)
     => /\ get_host(args[p].url) = "unknown"
        /\ result[p].status = "ok"
        /\ result[p].productive = "None"
        /\ result[p].host = "unknown"
        /\ HasSite(RecordOf(data[p], today[p], args[p].user).sites, "unknown")

\* C5: a (date, user) pair that a save has written to the persisted store
\* has a record in the persisted store ever after.
RecordsNeverDeleted ==
  file_lock = "free" => seen \subseteq Keys(Persisted)

\* C6: in every record of the persisted store the per-site seconds sum to
\* at least productive + unproductive.
StoreInvariant ==
  \A k \in Keys(Persisted) :
     LET rec == Persisted[k[1]][k[2]]
     IN  SumSites(rec.sites) >= rec.productive + rec.unproductive

\* C7: when the document is absent, corrupt or unreadable, the invocation
\* proceeds as on an empty store: POST /activity returns status ok and the
\* report has no error indicator.
LoadTolerance ==
  \A p \in Procs :
     (pc[p] = "done" /\ obs[p].loadSaw \in {"absent", "corrupt", "unreadable"})
     => IF args[p].op = "log" THEN result[p].status = "ok"
        ELSE ~result[p].error

\* C8: when persisting fails during POST /activity, the invocation still
\* returns status ok with the event's classification, host and duration.
SaveFailureSwallowed ==
  \A p \in Procs :
     (LogDone(p) /\ obs[p].saveFailed)
     => /\ result[p].status = "ok"
        /\ result[p].productive = is_productive_site(args[p].url)
        /\ result[p].host = get_host(args[p].url)
        /\ result[p].duration_logged = args[p].duration

\* an invocation whose save failed has returned
SaveFailureSwallowedWitness ==
  \E p \in Procs : LogDone(p) /\ obs[p].saveFailed /\ file.kind = "corrupt"

\* C9: when a failure occurs inside GET /analysis/today, the handler
\* returns the zeroed report: minutes 0, percent 0.0, delta None, the
\* fallback quote, no sites, and an error indicator.
AnalysisFailureContained ==
  \A p \in Procs :
     (AnalysisDone(p) /\ obs[p].loadSaw = "unreadable")
     => /\ result[p].productive_minutes = 0
        /\ result[p].unproductive_minutes = 0
        /\ result[p].productivity_percent = 0
        /\ result[p].delta_vs_yesterday_percent = {}
        /\ result[p].quote = "Every journey begins with a single step."
        /\ result[p].by_site = <<>>
        /\ result[p].error

\* a report was asked for and the load of the document raised
AnalysisFailureContainedWitness ==
  \E p \in Procs : AnalysisDone(p) /\ obs[p].loadSaw = "unreadable"

\* some entry of the list is a substring of the host
SomeEntryIn(list, h) == \E i \in 1..Len(list) : StrIn(list[i], h)

\* C10: the classification of a host is Productive iff an entry of the
\* productive list is a substring of it, otherwise Unproductive iff an
\* entry of the unproductive list is, otherwise Neutral; "sub.github.com"
\* is Productive.
ClassifierDecision ==
  \A p \in Procs :
     (args[p].op = "log" /\ pc[p] \in {"save", "save_dump", "done"})
     => LET h == host[p]
            inProductive == SomeEntryIn(PRODUCTIVE_SITES, h)
            inUnproductive == SomeEntryIn(UNPRODUCTIVE_SITES, h)
        IN  /\ productive[p] = "True" <=> inProductive
            /\ productive[p] = "False" <=> (~inProductive /\ inUnproductive)
            /\ productive[p] = "None" <=> (~inProductive /\ ~inUnproductive)
            /\ h = "sub.github.com" => productive[p] = "True"

\* a host that holds entries of both lists was classified
ClassifierDecisionWitness ==
  \E p \in Procs :
     /\ LogDone(p)
     /\ SomeEntryIn(PRODUCTIVE_SITES, host[p])
     /\ SomeEntryIn(UNPRODUCTIVE_SITES, host[p])
     /\ productive[p] = "True"

(***************************************************************************)
(* The report, against the store it was computed from.                     *)
(***************************************************************************)
\* q = floor(n / 60)
IsFloorMinutes(q, n) == 60 * q <= n /\ n < 60 * q + 60

\* k tenths is the value of n / d * 100 rounded to one decimal, ties to even
IsRoundedPercent(k, n, d) ==
  /\ 2 * Abs(k * d - 1000 * n) <= d
  /\ 2 * Abs(k * d - 1000 * n) = d => k % 2 = 0

\* an invocation of GET /analysis/today has returned its report
Reported(p) == AnalysisDone(p) /\ obs[p].loadSaw # "unreadable"

\* C11: for an empty or missing store and any user, the report has
\* productive and unproductive minutes 0, percent 0.0, delta None, a quote
\* of the pool of 10 strings, no sites, and no error indicator.
EmptyStoreReport ==
  \A p \in Procs :
     (Reported(p) /\ Loaded(obs[p].pre) = EmptyDict)
     => /\ result[p].productive_minutes = 0
        /\ result[p].unproductive_minutes = 0
        /\ result[p].productivity_percent = 0
        /\ result[p].delta_vs_yesterday_percent = {}
        /\ Len(MOTIVATIONAL_QUOTES) = 10
        /\ \E q \in 1..10 : result[p].quote = MOTIVATIONAL_QUOTES[q]
        /\ result[p].by_site = <<>>
        /\ ~result[p].error

\* a report was computed from a document that is no JSON, and from none
EmptyStoreReportWitness ==
  \E p \in Procs :
     /\ Reported(p)
     /\ obs[p].loadSaw = "corrupt"
     /\ args[p].user = "bob"
     /\ result[p].quote = MOTIVATIONAL_QUOTES[10]

\* the floor-minutes of a record
TotalMinutes(rec) == (rec.productive \div 60) + (rec.unproductive \div 60)

\* C12: in a report for user u, delta is None if and only if the store
\* has no record for (yesterday, u) or that record's total floor-minutes
\* are 0; otherwise it is a number, also with no activity today.
DeltaPresence ==
  \A p \in Procs :
     Reported(p)
     => LET store == Loaded(obs[p].pre)
            u == args[p].user
            y == today[p] - 1
        IN  result[p].delta_vs_yesterday_percent = {}
            <=> (~HasRecord(store, y, u) \/ TotalMinutes(store[y][u]) = 0)

\* C13: when yesterday's record has total floor-minutes > 0, delta is
\* round(today's percent - yesterday's percent, 1), yesterday's percent
\* being round(yesterday's productive minutes / total minutes * 100, 1).
DeltaValue ==
  \A p \in Procs :
     Reported(p)
     => LET store == Loaded(obs[p].pre)
            u == args[p].user
            y == today[p] - 1
        IN  (HasRecord(store, y, u) /\ TotalMinutes(store[y][u]) > 0)
            => LET yesterdayPercent == Percent(store[y][u].productive \div 60,
                                               TotalMinutes(store[y][u]))
               IN  result[p].delta_vs_yesterday_percent =
                      {result[p].productivity_percent - yesterdayPercent}

\* C14: productive_minutes and unproductive_minutes are the floor of the
\* record's seconds / 60, and productivity_percent is
\* round(productive_minutes / total minutes * 100, 1) when the total is
\* > 0 and 0.0 otherwise; 600 s and 300 s give 66.7, less than 60 s in
\* each counter gives 0.0.
PercentComputation ==
  \A p \in Procs :
     Reported(p)
     => LET rec == RecordOf(Loaded(obs[p].pre), today[p], args[p].user)
            pm == result[p].productive_minutes
            um == result[p].unproductive_minutes
            k == result[p].productivity_percent
        IN  /\ IsFloorMinutes(pm, rec.productive)
            /\ IsFloorMinutes(um, rec.unproductive)
            /\ IF pm + um > 0 THEN IsRoundedPercent(k, pm, pm + um) ELSE k = 0
            /\ (rec.productive = 600 /\ rec.unproductive = 300) => k = 667
            /\ (rec.productive \in 0..59 /\ rec.unproductive \in 0..59) => k = 0

\* a report of 66.7 percent was computed from 600 s and 300 s
PercentComputationWitness ==
  \E p \in Procs :
     /\ Reported(p)
     /\ RecordOf(Loaded(obs[p].pre), today[p], args[p].user).productive = 600
     /\ RecordOf(Loaded(obs[p].pre), today[p], args[p].user).unproductive = 300
     /\ result[p].productive_minutes = 10
     /\ result[p].unproductive_minutes = 5
     /\ result[p].productivity_percent = 667

\* the hosts of a list of <<host, n>> entries
HostsOf(l) == {l[i][1] : i \in 1..Len(l)}

\* the hosts of the record with at least one floor-minute
Ranked(sites) == {i \in 1..Len(sites) : sites[i][2] \div 60 >= 1}

\* C15: by_site holds only hosts of the record with floor(seconds / 60)
\* >= 1, each with its floor-minutes, in non-increasing order of minutes,
\* at most 10 of them, and no host with at least one minute that is left
\* out has more minutes than a listed one; hosts are left out only beyond
\* the tenth.
SiteRanking ==
  \A p \in Procs :
     Reported(p)
     => LET sites == RecordOf(Loaded(obs[p].pre), today[p], args[p].user).sites
            top == result[p].by_site
        IN  /\ \A j \in 1..Len(top) :
                  \E i \in Ranked(sites) :
                     /\ sites[i][1] = top[j][1]
                     /\ IsFloorMinutes(top[j][2], sites[i][2])
            /\ \A j \in 1..(Len(top) - 1) : top[j][2] >= top[j + 1][2]
            /\ Len(top) <= 10
            /\ Cardinality(HostsOf(top)) = Len(top)
            /\ Len(top) = Min2(10, Cardinality(Ranked(sites)))
            /\ \A i \in Ranked(sites) :
                  sites[i][1] \notin HostsOf(top)
                  => \A j \in 1..Len(top) : sites[i][2] \div 60 <= top[j][2]

\* a report left out hosts of at least one minute, and listed the host of
\* 12 minutes first and two hosts of 10 minutes in dict order
SiteRankingWitness ==
  \E p \in Procs :
     /\ Reported(p)
     /\ Len(result[p].by_site) = 10
     /\ Cardinality(Ranked(RecordOf(Loaded(obs[p].pre), today[p],
                                    args[p].user).sites)) = 14
     /\ result[p].by_site[1] = <<"s12.example.org", 12>>
     /\ result[p].by_site[3] = <<"github.com", 10>>
     /\ result[p].by_site[4] = <<"s10.example.org", 10>>

(***************************************************************************)
(* Dates, frames and the lock.                                             *)
(***************************************************************************)
\* C16: in every invocation of GET /analysis/today the date key used for
\* yesterday's record is the day before the date key used for today's
\* record, also when midnight passes while the invocation runs.
ConsistentDates ==
  \A p \in Procs : Reported(p) => yesterday[p] = today[p] - 1

\* invocation p takes a step
Steps(p) == pc'[p] # pc[p]

\* invocation p returns
Returns(p) == pc[p] # "done" /\ pc'[p] = "done"

\* C17: no step of GET /analysis/today changes the persisted store, and
\* when the invocation ran with no other one the store after it is the
\* store before it: the record created for a user with no data today is
\* in the invocation's own dict only.
ReportsReadOnly ==
  [][\A p \in Procs :
        (args'[p].op = "analysis" /\ Steps(p))
        => /\ file' = file
           /\ (Returns(p) /\ obs'[p].alone) => file' = obs[p].pre]_vars

\* a report for a user with no record today was computed from a store
\* with records: its dict has the record, the store has not
ReportsReadOnlyWitness ==
  \E p \in Procs :
     /\ Reported(p) /\ obs[p].alone
     /\ file.kind = "json" /\ file = obs[p].pre
     /\ Keys(Persisted) # {}
     /\ HasRecord(data[p], today[p], args[p].user)
     /\ ~HasRecord(Persisted, today[p], args[p].user)

\* what the event of invocation p may not touch, from the store before the
\* invocation to the store after it
Frame(p, before, after) ==
  LET mine == <<today[p], args[p].user>>
      old == RecordOf(before, mine[1], mine[2])
      new == RecordOf(after, mine[1], mine[2])
  IN  /\ \A k \in Keys(before) \ {mine} :
            k \in Keys(after) /\ after[k[1]][k[2]] = before[k[1]][k[2]]
      /\ Keys(after) \subseteq Keys(before) \cup {mine}
      /\ \A h \in (HostsOf(old.sites) \cup HostsOf(new.sites)) \ {host[p]} :
            /\ HasSite(old.sites, h) /\ HasSite(new.sites, h)
            /\ SiteSeconds(new.sites, h) = SiteSeconds(old.sites, h)

\* C18: a POST /activity for (host h, user u) executed alone on date D
\* leaves every record of the persisted store for another (date, user)
\* pair unchanged, and in the record (D, u) the seconds of every host
\* other than h.
FrameOfRecordEvent ==
  [][\A p \in Procs :
        (args[p].op = "log" /\ Returns(p) /\ obs'[p].alone)
        => Frame(p, Loaded(obs[p].pre), Loaded(file'))]_vars

\* C19: when POST /activity returns status "error" the invocation has not
\* opened the file for writing, and with no other invocation running the
\* persisted store is what it was before the invocation.
UnchangedOnError ==
  [][\A p \in Procs :
        (args[p].op = "log" /\ Returns(p) /\ result'[p].status = "error")
        => /\ pc[p] \in {"load", "la_update", "save"}
           /\ file' = file
           /\ obs'[p].alone => file' = obs[p].pre]_vars

\* POST /activity returned status "error" on a store with records, which
\* are still there
UnchangedOnErrorWitness ==
  \E p \in Procs :
     /\ LogDone(p) /\ result[p].status = "error" /\ obs[p].alone
     /\ file.kind = "json" /\ Keys(Persisted) # {}
     /\ file = obs[p].pre

\* file_lock is held by the invocation inside save_data, and by no other
LockHeldBySaver ==
  /\ file_lock # "free" => pc[file_lock] = "save_dump"
  /\ \A p \in Procs : pc[p] = "save_dump" => file_lock = p

\* C20: load_data and save_data exclude each other under file_lock: a load
\* runs only while no invocation is inside save_data, so it returns the
\* document as a save left it (one that is no JSON only after a save that
\* failed or was killed), and file_lock is free at the end of every load
\* and every save, on success and on failure.
NoTornRead ==
  /\ []LockHeldBySaver
  /\ [][\A p \in Procs :
          /\ (pc[p] = "load" /\ Steps(p) /\ pc'[p] # "killed")
             => /\ \A q \in Procs : pc[q] # "save_dump"
                /\ file' = file
                /\ pc'[p] # "done" => data'[p] = Loaded(file)
                /\ file.kind = "corrupt" => faults > 0
                /\ file_lock' = "free"
          /\ (pc[p] \in {"save", "save_dump"} /\ Returns(p))
             => file_lock' = "free"]_vars

\* an invocation called on an absent file, while another one ran, loaded
\* the document the other one saved
NoTornReadWitness ==
  \E p \in Procs, q \in Procs :
     /\ p # q /\ LogDone(q) /\ faults = 0
     /\ ~obs[p].alone
     /\ obs[p].pre.kind = "absent"
     /\ obs[p].loadSaw = "json"
     /\ data[p] # EmptyDict

====
